---- MODULE Spec2Model ----
(***************************************************************************)
(* A model of src/src/main.rs: the byte-budget allocator random_bytes_lt,  *)
(* the transaction generator random_tx and the driver main.                *)
(*                                                                         *)
(* What is kept: every branch, loop, early exit and budget update of the   *)
(* three functions, the number of calls made on the random stream, the     *)
(* shape of the generated transaction (how many inputs, outputs and        *)
(* witness items, and the length of every byte vector), the entry list,    *)
(* the oracle calls and the single write at the end.                       *)
(*                                                                         *)
(* What is abstracted: a byte vector is represented by its length, and the *)
(* random scalars no branch reads (version, lock time, txid, vout,         *)
(* sequence, value) are drawn (the stream advances) but not stored.        *)
(* The inclusive ranges of lines 48-58 keep their start; their end and the *)
(* 36-byte outpoint charge are scaled down to the bounds below.            *)
(***************************************************************************)
EXTENDS Integers, Naturals, Sequences, FiniteSets, TLC

\* ------------------------------------------------------------------ bounds
\* INPUT_COUNT = 1..=129 (line 48), modelled as 1..=MaxInputCount.
MaxInputCount == 2
\* OUTPUT_COUNT = 0..=129 (line 49).
MaxOutputCount == 1
\* SCRIPT_PUBKEY_LENGTH = 0..=129 (line 51).
MaxScriptPubkey == 1
\* SCRIPT_SIG_LENGTH = 0..=129 (line 52).
MaxScriptSig == 1
\* WITNESS_LENGTH = 0..=129 (line 53).
MaxWitness == 2
\* WITNESS_ITEM_LENGTH = 0..=520 (line 54).
MaxWitnessItem == 3
\* RANDOM_BYTES_COUNT = 0..=10_000 (line 58).
MaxRandomBytes == 2
\* The fixed outpoint charge, 36 at line 105.
OutpointBytes == 1
\* random_bytes_lt on its own: ranges [lo, hi] with hi <= MaxLtEnd, budgets
\* up to MaxLtBudget, drawn words up to MaxLtDraw.
MaxLtEnd == 4
MaxLtBudget == 5
MaxLtDraw == 7

\* The values of args.transaction_count (line 254) that are tried: an empty
\* batch, a single transaction, and two, the least that has an order.
TransactionCounts == {0, 1, 2}

\* ----------------------------------------------------------------- ranges
Range(s, e) == [start |-> s, end |-> e]

\* INPUT_COUNT had it started at 0, as OUTPUT_COUNT does.
INPUT_COUNT_from_zero == Range(0, MaxInputCount)
INPUT_COUNT == Range(1, MaxInputCount)
OUTPUT_COUNT == Range(0, MaxOutputCount)
SCRIPT_PUBKEY_LENGTH == Range(0, MaxScriptPubkey)
SCRIPT_SIG_LENGTH == Range(0, MaxScriptSig)
WITNESS_LENGTH == Range(0, MaxWitness)
WITNESS_ITEM_LENGTH == Range(0, MaxWitnessItem)
RANDOM_BYTES_COUNT == Range(0, MaxRandomBytes)

Max2(a, b) == IF a >= b THEN a ELSE b

\* The values rand.next_u64() may return: enough of them to reach every
\* residue of every range above.
NextU64 ==
    0 .. Max2(Max2(Max2(MaxInputCount, MaxOutputCount),
                   Max2(MaxScriptPubkey, MaxScriptSig)),
              Max2(Max2(MaxWitness, MaxWitnessItem), MaxRandomBytes))

\* The values rand.next_u32() may return: a small even one and a large odd
\* one (the largest integer TLC represents, standing for u32::MAX).
NextU32 == {2, 2147483647}

\* usize::wrapping_sub, on 16 bits.
wrapping_sub(a, b) == (a - b) % 65536

\* usize::saturating_sub
saturating_sub(a, b) == IF a >= b THEN a - b ELSE 0

\* random_range: start + (x % size), size = max(end - start, 0) + 1
random_range(x, range) ==
    LET size == Max2(range.end - range.start, 0) + 1
    IN  range.start + (x % size)

\* random_bytes_lt without the reduction modulo max_bytes + 1.
random_bytes_lt_unclamped(x, length, max_bytes, rand) ==
    IF max_bytes < 1
    THEN [result |-> 0, max_bytes |-> max_bytes, rand |-> rand]
    ELSE LET len == random_range(x, length)
         IN  [result |-> len,
              max_bytes |-> saturating_sub(max_bytes, len),
              rand |-> rand + 2]

\* random_bytes_lt without the early return on an exhausted budget.
random_bytes_lt_unguarded(x, length, max_bytes, rand) ==
    LET len == random_range(x, length) % (max_bytes + 1)
    IN  [result |-> len,
         max_bytes |-> saturating_sub(max_bytes, len),
         rand |-> rand + 2]

\* random_bytes_lt(rand, length, max_bytes) for the word x that next_u64
\* would return.  rand counts the calls made on the stream.
random_bytes_lt(x, length, max_bytes, rand) ==
    IF max_bytes < 1
    THEN [result |-> 0, max_bytes |-> max_bytes, rand |-> rand]
    ELSE LET len == random_range(x, length) % (max_bytes + 1)
         IN  [result |-> len,
              max_bytes |-> saturating_sub(max_bytes, len),
              rand |-> rand + 2]

random_witness_item(x, max_bytes, rand) ==
    random_bytes_lt(x, WITNESS_ITEM_LENGTH, max_bytes, rand)

\* ------------------------------------------------------------------ state
VARIABLES
    pc,                     \* where main (and random_tx inside it) stands
    panic,                  \* the message of the expect/unwrap that ended the run
    transaction_count,      \* args.transaction_count
    n,                      \* iterations of main's loop completed
    rand,                   \* calls made on the random stream so far
    input_count,            \* random_tx locals
    output_count,
    random_bytes_remaining,
    has_witness,
    witness_item_count,
    witness,
    input,
    output,
    budget0,                \* the value random_bytes_remaining was drawn with
    tx,                     \* main: the transaction random_tx returned
    spend_index,
    result,
    hextx,
    deserialized,           \* main: _deserialized_hex
    desc,
    calls,                  \* the oracle calls made for the current transaction
    entries,
    generated,              \* the encodings generated so far, in order
    written,                \* what the sink received, one element per write
    lt                      \* a single call of random_bytes_lt (SpecLt)

txLocals == <<input_count, output_count, random_bytes_remaining, has_witness,
              witness_item_count, witness, input, output, budget0>>
mainLocals == <<tx, spend_index, result, hextx, deserialized, desc, calls>>
vars == <<pc, panic, transaction_count, n, rand, txLocals, mainLocals,
          entries, generated, written, lt>>

None == "none"
NoTx == [input |-> <<>>, output |-> <<>>]
NoHex == [segwit |-> FALSE, vin |-> <<>>, vout |-> <<>>, witnesses |-> <<>>]
NoDesc == [inputs |-> 0, outputs |-> 0, witness |-> FALSE, script_sigs |-> FALSE]
LtIdle == [phase |-> "idle"]

DOCUMENTATION ==
    "{\"hex_tx\":string (hex tx), \"spend_index\":[number], \"result\": [string (hex hash)]}"

TxLocalsReset ==
    /\ input_count' = 0
    /\ output_count' = 0
    /\ random_bytes_remaining' = 0
    /\ has_witness' = FALSE
    /\ witness_item_count' = 0
    /\ witness' = <<>>
    /\ input' = <<>>
    /\ output' = <<>>
    /\ budget0' = 0

MainLocalsReset ==
    /\ tx' = NoTx
    /\ spend_index' = <<>>
    /\ result' = <<>>
    /\ hextx' = NoHex
    /\ deserialized' = NoTx
    /\ desc' = NoDesc
    /\ calls' = <<>>

InitLocals ==
    /\ input_count = 0
    /\ output_count = 0
    /\ random_bytes_remaining = 0
    /\ has_witness = FALSE
    /\ witness_item_count = 0
    /\ witness = <<>>
    /\ input = <<>>
    /\ output = <<>>
    /\ budget0 = 0
    /\ tx = NoTx
    /\ spend_index = <<>>
    /\ result = <<>>
    /\ hextx = NoHex
    /\ deserialized = NoTx
    /\ desc = NoDesc
    /\ calls = <<>>

\* main, before its first statement.
Init ==
    /\ pc = "open_client"
    /\ panic = None
    /\ transaction_count \in TransactionCounts
    /\ n = 0
    /\ rand = 0
    /\ InitLocals
    /\ entries = <<>>
    /\ generated = <<>>
    /\ written = <<>>
    /\ lt = LtIdle

\* ------------------------------------------------------------- random_tx
\* The loop below without its break.
AfterIterationNoBreak(done, count, remaining, body, exit) ==
    IF done < count THEN body ELSE exit

\* A `for _ in 0..count` loop whose body ends with
\* `if random_bytes_remaining < 1 { break; }`: after an iteration that left
\* `done` elements, go round again or leave.
AfterIteration(done, count, remaining, body, exit) ==
    IF remaining < 1 THEN exit
    ELSE IF done < count THEN body ELSE exit

\* Entering a `for _ in 0..count` loop.
EnterLoop(count, body, exit) == IF 0 < count THEN body ELSE exit

\* Lines 84-95: version, lock_time, the three counts, has_witness.
TxHeader ==
    /\ pc = "loop"
    /\ n < transaction_count
    /\ \E xi \in NextU64, xo \in NextU64, xb \in NextU64, w \in NextU32 :
        /\ input_count' = random_range(xi, INPUT_COUNT)
        /\ output_count' = random_range(xo, OUTPUT_COUNT)
        /\ random_bytes_remaining' = random_range(xb, RANDOM_BYTES_COUNT)
        /\ budget0' = random_range(xb, RANDOM_BYTES_COUNT)
        /\ has_witness' = ((w % 2) = 1)
        /\ pc' = EnterLoop(random_range(xi, INPUT_COUNT), "input",
                           EnterLoop(random_range(xo, OUTPUT_COUNT),
                                     "output", "return"))
    /\ rand' = rand + 6
    /\ input' = <<>>
    /\ output' = <<>>
    /\ witness' = <<>>
    /\ witness_item_count' = 0
    /\ UNCHANGED <<panic, transaction_count, n, mainLocals, entries,
                   generated, written, lt>>

\* Lines 97-110: the outpoint, its fixed charge, and the witness item count.
InputBegin ==
    /\ pc = "input"
    /\ random_bytes_remaining' =
           saturating_sub(random_bytes_remaining, OutpointBytes)
    /\ witness' = <<>>
    /\ IF has_witness
       THEN \E x \in NextU64 :
               /\ witness_item_count' = random_range(x, WITNESS_LENGTH)
               /\ pc' = EnterLoop(random_range(x, WITNESS_LENGTH),
                                  "witness", "script_sig")
               /\ rand' = rand + 3
       ELSE /\ witness_item_count' = 0
            /\ pc' = "script_sig"
            /\ rand' = rand + 2
    /\ UNCHANGED <<panic, transaction_count, n, input_count, output_count,
                   has_witness, input, output, budget0, mainLocals, entries,
                   generated, written, lt>>

\* Lines 112-119: one witness item.
WitnessItem ==
    /\ pc = "witness"
    /\ \E x \in NextU64 :
        LET r == random_witness_item(x, random_bytes_remaining, rand)
        IN  /\ witness' = Append(witness, r.result)
            /\ random_bytes_remaining' = r.max_bytes
            /\ rand' = r.rand
            /\ pc' = AfterIteration(Len(witness) + 1, witness_item_count,
                                    r.max_bytes, "witness", "script_sig")
    /\ UNCHANGED <<panic, transaction_count, n, input_count, output_count,
                   has_witness, witness_item_count, input, output, budget0,
                   mainLocals, entries, generated, written, lt>>

\* Lines 122-126: the unlocking script of the input being built.
ScriptSigDraw(x, witness_mode, max_bytes, r) ==
    IF witness_mode
    THEN random_bytes_lt(x, SCRIPT_SIG_LENGTH, max_bytes, r)
    ELSE [result |-> 0, max_bytes |-> max_bytes, rand |-> r]

\* Lines 122-137: script_sig, the push of the input, the early exit.
InputFinish ==
    /\ pc = "script_sig"
    /\ \E x \in NextU64 :
        LET r == ScriptSigDraw(x, has_witness, random_bytes_remaining, rand)
        IN  /\ input' = Append(input, [script_sig |-> r.result,
                                       witness |-> witness])
            /\ random_bytes_remaining' = r.max_bytes
            /\ rand' = r.rand + 1
            /\ pc' = AfterIteration(Len(input) + 1, input_count, r.max_bytes,
                                    "input",
                                    EnterLoop(output_count, "output", "return"))
    /\ witness' = <<>>
    /\ witness_item_count' = 0
    /\ UNCHANGED <<panic, transaction_count, n, input_count, output_count,
                   has_witness, output, budget0, mainLocals, entries,
                   generated, written, lt>>

\* Lines 143-156: one output.
OutputStep ==
    /\ pc = "output"
    /\ \E x \in NextU64 :
        LET r == random_bytes_lt(x, SCRIPT_PUBKEY_LENGTH,
                                 random_bytes_remaining, rand + 1)
        IN  /\ output' = Append(output, [script_pubkey |-> r.result])
            /\ random_bytes_remaining' = r.max_bytes
            /\ rand' = r.rand
            /\ pc' = AfterIteration(Len(output) + 1, output_count, r.max_bytes,
                                    "output", "return")
    /\ UNCHANGED <<panic, transaction_count, n, input_count, output_count,
                   has_witness, witness_item_count, witness, input, budget0,
                   mainLocals, entries, generated, written, lt>>

\* Lines 158-163 and 279: the transaction is assembled and handed to main.
TxReturn ==
    /\ pc = "return"
    /\ tx' = [input |-> input, output |-> output]
    /\ TxLocalsReset
    /\ pc' = "self_check"
    /\ UNCHANGED <<panic, transaction_count, n, rand, spend_index, result,
                   hextx, deserialized, desc, calls, entries, generated,
                   written, lt>>

NextTx ==
    \/ TxHeader
    \/ InputBegin
    \/ WitnessItem
    \/ InputFinish
    \/ OutputStep
    \/ TxReturn

\* One call of random_tx, from its entry to its return.
InitTx ==
    /\ pc = "loop"
    /\ panic = None
    /\ transaction_count = 1
    /\ n = 0
    /\ rand = 0
    /\ InitLocals
    /\ entries = <<[doc |-> DOCUMENTATION]>>
    /\ generated = <<>>
    /\ written = <<>>
    /\ lt = LtIdle

SpecTx == InitTx /\ [][NextTx]_vars

\* ------------------------------------------------------------------ main
SeqMap(f(_), q) == [k \in 1 .. Len(q) |-> f(q[k])]
iter_any(p(_), q) == \E k \in 1 .. Len(q) : p(q[k])

WitnessNonEmpty(txin) == txin.witness # <<>>
ScriptSigNonEmpty(txin) == txin.script_sig > 0
ScriptSigOf(txin) == txin.script_sig
WitnessOf(txin) == txin.witness
ScriptPubkeyOf(txout) == txout.script_pubkey

\* serialize_hex (line 286): the inputs with their unlocking scripts, the
\* outputs, and, only when some input has a non-empty witness, the segwit
\* flag and one witness stack per input after the outputs.
serialize_hex(t) ==
    LET segwit == iter_any(WitnessNonEmpty, t.input)
    IN  [segwit |-> segwit,
         vin |-> SeqMap(ScriptSigOf, t.input),
         vout |-> SeqMap(ScriptPubkeyOf, t.output),
         witnesses |-> IF segwit THEN SeqMap(WitnessOf, t.input) ELSE <<>>]

\* deserialize_hex (line 288) on an encoding serialize_hex produced.
deserialize_hex(h) ==
    [input |-> [k \in 1 .. Len(h.vin) |->
                   [script_sig |-> h.vin[k],
                    witness |-> IF h.segwit THEN h.witnesses[k] ELSE <<>>]],
     output |-> [k \in 1 .. Len(h.vout) |-> [script_pubkey |-> h.vout[k]]]]

\* The same, by a decoder that skips the witness section.
deserialize_legacy(h) ==
    [input |-> [k \in 1 .. Len(h.vin) |->
                   [script_sig |-> h.vin[k], witness |-> <<>>]],
     output |-> [k \in 1 .. Len(h.vout) |-> [script_pubkey |-> h.vout[k]]]]

\* What main may get back from deserialize_hex, a function of another
\* crate: an error, or a transaction.  main takes any transaction.
DeserializeOutcomes(h) ==
    {[ok |-> FALSE, value |-> NoTx],
     [ok |-> TRUE, value |-> deserialize_hex(h)],
     [ok |-> TRUE, value |-> deserialize_legacy(h)]}

\* Lines 291-297.
DescOf(t) ==
    [inputs |-> Len(t.input),
     outputs |-> Len(t.output),
     witness |-> iter_any(WitnessNonEmpty, t.input),
     script_sigs |-> iter_any(ScriptSigNonEmpty, t.input)]

\* Lines 281-282: vec![0, 1] extended by two drawn indices.
SpendIndex(a, b) == <<0, 1, a, b>>

\* The arguments below with the first spend index in every call.
OracleArgsFirstIndex(h, q, k, d) ==
    [tx |-> h, index |-> q[1], witness |-> d.witness]

\* Lines 300-304: the arguments of one getdefaulttemplate call.
OracleArgs(h, q, k, d) == [tx |-> h, index |-> q[k], witness |-> d.witness]

\* The oracle's answer is opaque to main: a token naming the index and the
\* witness flag it was asked about.
TemplateOf(args) == <<"template", args.index, args.witness>>

\* The entry list without its documentation string.
NoEntries == <<>>

\* Lines 271-276.
InitialEntries == <<[doc |-> DOCUMENTATION]>>

\* Lines 309-316.
TestVector(h, q, r, d) ==
    [transaction |-> h, spend_index |-> q, result |-> r, desc |-> d]

\* A failed expect or unwrap panics: the stack is unwound, every local of
\* main is dropped and the process ends.  The sink keeps what it received.
Abort(msg) ==
    /\ pc' = "aborted"
    /\ panic' = msg
    /\ n' = 0
    /\ rand' = 0
    /\ TxLocalsReset
    /\ MainLocalsReset
    /\ entries' = <<>>
    /\ generated' = <<>>
    /\ UNCHANGED <<transaction_count, written, lt>>

\* Lines 261-267: the arguments, the RPC client, the random stream.
OpenClient ==
    /\ pc = "open_client"
    /\ \/ /\ pc' = "open_out"
          /\ UNCHANGED <<panic, transaction_count, n, rand, txLocals,
                         mainLocals, entries, generated, written, lt>>
       \/ Abort("open client")

\* Lines 269-276: the sink is opened, the entry list starts with the
\* documentation string.
OpenOut ==
    /\ pc = "open_out"
    /\ \/ /\ pc' = "loop"
          /\ entries' = InitialEntries
          /\ UNCHANGED <<panic, transaction_count, n, rand, txLocals,
                         mainLocals, generated, written, lt>>
       \/ Abort("Open out")

\* Lines 281-297: the spend indices, the encoding, the decode, the
\* descriptor.
SelfCheck ==
    /\ pc = "self_check"
    /\ \E a \in NextU32, b \in NextU32,
          d \in DeserializeOutcomes(serialize_hex(tx)) :
        IF ~d.ok
        THEN Abort("deserialize hex")
        ELSE /\ spend_index' = SpendIndex(a, b)
             /\ hextx' = serialize_hex(tx)
             /\ generated' = Append(generated, serialize_hex(tx))
             /\ deserialized' = d.value
             /\ desc' = DescOf(tx)
             /\ pc' = "oracle"
             /\ rand' = rand + 2
             /\ result' = <<>>
             /\ calls' = <<>>
             /\ UNCHANGED <<panic, transaction_count, n, txLocals, tx,
                            entries, written, lt>>

\* Lines 299-307: one getdefaulttemplate call, which answers or fails.
OracleCall ==
    /\ pc = "oracle"
    /\ LET args == OracleArgs(hextx, spend_index, Len(result) + 1, desc)
       IN  \/ /\ calls' = Append(calls, args)
              /\ result' = Append(result, TemplateOf(args))
              /\ pc' = IF Len(result) + 1 < Len(spend_index)
                       THEN "oracle" ELSE "push"
              /\ UNCHANGED <<panic, transaction_count, n, rand, txLocals, tx,
                             spend_index, hextx, deserialized, desc, entries,
                             generated, written, lt>>
           \/ Abort("oracle call")

\* Lines 309-317: the entry is added, the iteration ends.
PushEntry ==
    /\ pc = "push"
    /\ entries' = Append(entries, TestVector(hextx, spend_index, result, desc))
    /\ n' = n + 1
    /\ MainLocalsReset
    /\ pc' = "loop"
    /\ UNCHANGED <<panic, transaction_count, rand, txLocals, generated,
                   written, lt>>

\* Lines 319-320: the one write, after the loop.  to_writer_pretty either
\* hands the whole list to the sink, or fails: before the sink took
\* anything, or after it took part of the text.
WriteJson ==
    /\ pc = "loop"
    /\ ~(n < transaction_count)
    /\ \/ /\ written' = Append(written, [complete |-> TRUE, list |-> entries])
          /\ pc' = "done"
          /\ UNCHANGED <<panic, transaction_count, n, rand, txLocals,
                         mainLocals, entries, generated, lt>>
       \/ Abort("write json")
       \/ /\ written' = Append(written, [complete |-> FALSE, list |-> <<>>])
          /\ pc' = "aborted"
          /\ panic' = "write json"
          /\ n' = 0
          /\ rand' = 0
          /\ TxLocalsReset
          /\ MainLocalsReset
          /\ entries' = <<>>
          /\ generated' = <<>>
          /\ UNCHANGED <<transaction_count, lt>>

Next ==
    \/ OpenClient
    \/ OpenOut
    \/ TxHeader
    \/ InputBegin
    \/ WitnessItem
    \/ InputFinish
    \/ OutputStep
    \/ TxReturn
    \/ SelfCheck
    \/ OracleCall
    \/ PushEntry
    \/ WriteJson

Spec == Init /\ [][Next]_vars

\* ------------------------------------------- random_bytes_lt on its own
\* One call random_bytes_lt(rand, [lo, hi], budget) from any start.
LtRanges == {Range(lo, hi) : lo \in 0 .. MaxLtEnd, hi \in 0 .. MaxLtEnd}

InitLt ==
    /\ pc = "open_client"
    /\ panic = None
    /\ transaction_count = 0
    /\ n = 0
    /\ rand = 0
    /\ InitLocals
    /\ entries = <<>>
    /\ generated = <<>>
    /\ written = <<>>
    /\ \E length \in LtRanges, b \in 0 .. MaxLtBudget :
        /\ length.start <= length.end
        /\ lt = [phase |-> "called", length |-> length, max_bytes |-> b,
                 rand |-> 0, result |-> 0, max_bytes_after |-> b,
                 rand_after |-> 0]

LtCall ==
    /\ lt.phase = "called"
    /\ \E x \in 0 .. MaxLtDraw :
        LET r == random_bytes_lt(x, lt.length, lt.max_bytes, lt.rand)
        IN  lt' = [lt EXCEPT !.phase = "returned",
                             !.result = r.result,
                             !.max_bytes_after = r.max_bytes,
                             !.rand_after = r.rand]
    /\ UNCHANGED <<pc, panic, transaction_count, n, rand, txLocals,
                   mainLocals, entries, generated, written>>

SpecLt == InitLt /\ [][LtCall]_vars

\* ------------------------------------------------------------- the claims
RECURSIVE Sum(_)
Sum(q) == IF q = <<>> THEN 0 ELSE Head(q) + Sum(Tail(q))

InputBytes(txin) == txin.script_sig + Sum(txin.witness)
\* The bytes emitted into the variable-length fields of a transaction.
EmittedBytes(ins, outs) ==
    Sum(SeqMap(InputBytes, ins)) + Sum(SeqMap(ScriptPubkeyOf, outs))

\* random_tx is past its header and has not returned.
InCall == pc \in {"input", "witness", "script_sig", "output", "return"}
\* random_tx is about to return Transaction { input, output }.
AtReturn == pc = "return"

\* C1: during one call of random_tx the running budget never rises and never
\* goes below zero: every step of the call leaves it >= 0, <= its value
\* before the step, and <= the budget drawn at line 90.
C1_BudgetNonIncreasing ==
    [][(InCall /\ InCall') =>
          /\ random_bytes_remaining' >= 0
          /\ random_bytes_remaining' <= random_bytes_remaining
          /\ random_bytes_remaining' <= budget0']_vars

\* C1 happens: the largest budget was drawn, the charge and a locking-script
\* draw have spent all of it.
C1_Witness ==
    /\ AtReturn
    /\ budget0 = MaxRandomBytes
    /\ random_bytes_remaining = 0
    /\ Len(output) > 0
    /\ output[1].script_pubkey > 0

\* C2: the transaction random_tx returns holds, in its unlocking scripts,
\* witness items and locking scripts together, no more bytes than the
\* budget drawn at the start of the call, hence no more than the largest
\* budget.
C2_EmittedWithinBudget ==
    AtReturn =>
        /\ EmittedBytes(input, output) <= budget0
        /\ EmittedBytes(input, output) <= MaxRandomBytes

\* C2 happens: a witness item was cut down to what the budget had left.
C2_Witness ==
    /\ AtReturn
    /\ has_witness
    /\ budget0 = MaxRandomBytes
    /\ EmittedBytes(input, output) > 0
    /\ Len(input[1].witness) > 0
    /\ input[1].witness[1] > 0

AllScriptsEmpty ==
    /\ \A k \in 1 .. Len(input) : input[k].script_sig = 0
    /\ \A k \in 1 .. Len(output) : output[k].script_pubkey = 0

\* C3 as stated: when the drawn budget is 0, every unlocking script is
\* empty, every witness holds no items and every locking script is empty.
C3_ZeroBudgetEmptyWitness ==
    (AtReturn /\ budget0 = 0) =>
        /\ AllScriptsEmpty
        /\ \A k \in 1 .. Len(input) : input[k].witness = <<>>

\* C3 as amended: when the drawn budget is 0, every unlocking script and
\* every locking script is empty and no witness holds a byte: a witness is
\* empty or holds one item, of length zero.
C3_ZeroBudgetNoBytes ==
    (AtReturn /\ budget0 = 0) =>
        /\ AllScriptsEmpty
        /\ \A k \in 1 .. Len(input) :
              input[k].witness \in {<<>>, <<0>>}

\* C3 happens: budget 0 in witness mode, the one input carries a witness
\* of one empty item, and there is an output.
C3_Witness ==
    /\ AtReturn
    /\ budget0 = 0
    /\ has_witness
    /\ input[1].witness = <<0>>
    /\ Len(output) = 1

\* C5: the returned transaction has at least one input, never more inputs
\* than the drawn input_count nor more than the range allows, and at most
\* output_count outputs, which may be none.
C5_InputOutputCounts ==
    AtReturn =>
        /\ 1 <= Len(input)
        /\ Len(input) <= input_count
        /\ input_count <= MaxInputCount
        /\ 0 <= Len(output)
        /\ Len(output) <= output_count
        /\ output_count <= MaxOutputCount

\* C5 happens: budget 0 cuts the input list short of the drawn count, and
\* one input is still there.
C5_Witness ==
    /\ AtReturn
    /\ budget0 = 0
    /\ input_count = MaxInputCount
    /\ Len(input) = 1

\* C10: in witness mode every unlocking script of the returned transaction
\* is empty.
C10_ScriptSigEmptyInWitnessMode ==
    (AtReturn /\ has_witness) =>
        \A k \in 1 .. Len(input) : input[k].script_sig = 0

\* C7: a call with budget b returns L bytes with L <= hi and L <= b and
\* leaves the budget at b - L; with b = 0 it returns nothing, leaves the
\* budget at 0 and makes no call on the random stream.
C7_RandomBytesLt ==
    lt.phase = "returned" =>
        /\ lt.result <= lt.length.end
        /\ lt.result <= lt.max_bytes
        /\ lt.max_bytes_after = lt.max_bytes - lt.result
        /\ (lt.max_bytes = 0 =>
               /\ lt.result = 0
               /\ lt.max_bytes_after = 0
               /\ lt.rand_after = lt.rand)

\* C7 happens: the drawn length was above the budget and was cut down.
C7_Witness ==
    /\ lt.phase = "returned"
    /\ lt.length.start > lt.max_bytes
    /\ lt.max_bytes > 0
    /\ lt.result > 0
    /\ lt.rand_after > lt.rand

IsSpendIndex(q) ==
    /\ Len(q) = 4
    /\ q[1] = 0
    /\ q[2] = 1

\* C8: the oracle is called once per spend index, in list order, with the
\* transaction's encoding and desc.witness; the spend indices are four and
\* start with 0 and 1; the results are the answers, in the same order, in
\* the iteration under way and in every entry.
C8_OraclePerSpendIndex ==
    /\ pc \in {"oracle", "push"} =>
          /\ IsSpendIndex(spend_index)
          /\ hextx = serialize_hex(tx)
          /\ desc.witness = iter_any(WitnessNonEmpty, tx.input)
          /\ Len(calls) = Len(result)
          /\ Len(calls) <= Len(spend_index)
          /\ (pc = "push" => Len(calls) = Len(spend_index))
          /\ \A k \in 1 .. Len(calls) :
                /\ calls[k] = [tx |-> hextx, index |-> spend_index[k],
                               witness |-> desc.witness]
                /\ result[k] = TemplateOf(calls[k])
    /\ \A e \in 2 .. Len(entries) :
          /\ IsSpendIndex(entries[e].spend_index)
          /\ Len(entries[e].result) = Len(entries[e].spend_index)
          /\ \A k \in 1 .. 4 :
                entries[e].result[k] =
                    TemplateOf([index |-> entries[e].spend_index[k],
                                witness |-> entries[e].desc.witness])

\* C8 happens: all four calls of a transaction with a witness are made, the
\* two drawn indices differ.
C8_Witness ==
    /\ pc = "push"
    /\ desc.witness
    /\ Len(calls) = 4
    /\ spend_index[3] # spend_index[4]

\* C9: the sink receives at most one write; a run that aborted before the
\* write (a failed oracle call or self-check among them) wrote nothing; a
\* run that ended well made every generation, self-check and oracle call
\* and wrote the documentation string followed by one entry per
\* transaction, in generation order.
C9_AllOrNothing ==
    /\ Len(written) <= 1
    /\ (pc = "aborted") = (panic # None)
    /\ (pc = "aborted" /\ panic # "write json") => written = <<>>
    /\ (pc # "aborted" /\ written # <<>>) =>
          /\ pc = "done"
          /\ n = transaction_count
          /\ Len(generated) = transaction_count
          /\ written[1].complete
          /\ Len(written[1].list) = 1 + transaction_count
          /\ written[1].list[1] = [doc |-> DOCUMENTATION]
          /\ \A k \in 1 .. transaction_count :
                /\ written[1].list[k + 1].transaction = generated[k]
                /\ Len(written[1].list[k + 1].result) = 4
    /\ pc = "done" => Len(written) = 1

\* C9 happens: a run of two different transactions was written.
C9_Witness ==
    /\ pc = "done"
    /\ Len(written) = 1
    /\ Len(written[1].list) = 3
    /\ written[1].list[2].transaction # written[1].list[3].transaction

====
